---- MODULE Spec2Model ----
(* A model of the LS-8 emulator of src/cpu.py: the CPU object (registers,  *)
(* RAM, stack pointer, program counter, instruction register, flags), the  *)
(* ALU and the fetch/dispatch loop of CPU.run, one action per dispatch arm. *)
(* Python semantics are kept: integers are unbounded (no 8-bit wrap unless  *)
(* the code wraps), a list index i is valid for -len <= i < len and a       *)
(* negative index counts from the end, anything else raises IndexError.     *)
EXTENDS Integers, Sequences, FiniteSets, TLC

VARIABLES reg, ram, sp, pc, ir, fl, status, output, prev, calls, image

vars == <<reg, ram, sp, pc, ir, fl, status, output, prev, calls, image>>

-----------------------------------------------------------------------------
(* Bounds of the exploration *)

\* largest magnitude of a value an ALU result may take before the run is cut
MaxVal == 600
\* largest number of values PRN may emit before the run is cut
MaxOut == 2
\* largest number of instructions of a generated program
MaxProgLen == 2
\* largest number of lines of a generated program file with unparseable lines
MaxFileLines == 3
\* largest distance of the stack pointer from its initial value before the
\* run is cut
MaxStack == 6

-----------------------------------------------------------------------------
(* Sizes and opcodes of the machine *)

RamSize == 256
RegCount == 8
StackStart == 244

OpLDI == 130
OpPRN == 71
OpHLT == 1
OpPUSH == 69
OpPOP == 70
OpCALL == 80
OpRET == 17
OpJMP == 84
OpJEQ == 85
OpJNE == 86
OpADD == 160
OpMUL == 162
OpSUB == 161
OpDIV == 163
OpMOD == 164
OpCMP == 167
OpAND == 168
OpOR == 170
OpXOR == 171
OpNOT == 105
OpSHL == 172
OpSHR == 173

\* the opcodes CPU.run has a dispatch arm for
Opcodes ==
    {OpLDI, OpPRN, OpHLT, OpPUSH, OpPOP, OpCALL, OpRET, OpJMP, OpJEQ, OpJNE,
     OpADD, OpMUL, OpSUB, OpDIV, OpMOD, OpCMP, OpAND, OpOR, OpXOR, OpNOT,
     OpSHL, OpSHR}

-----------------------------------------------------------------------------
(* Python list indexing *)

ListOk(i, n) == i >= -n /\ i < n
ListIdx(i, n) == IF i < 0 THEN i + n ELSE i

InRam(address) == ListOk(address, RamSize)
InReg(index) == ListOk(index, RegCount)

ram_read(address) == ram[ListIdx(address, RamSize)]
ram_write(address, value) == [ram EXCEPT ![ListIdx(address, RamSize)] = value]

reg_get(index) == reg[ListIdx(index, RegCount)]
reg_set(index, value) == [reg EXCEPT ![ListIdx(index, RegCount)] = value]

-----------------------------------------------------------------------------
(* Python's bitwise operators on unbounded two's-complement integers *)

RECURSIVE NatAnd(_, _)
NatAnd(a, b) ==
    IF a = 0 \/ b = 0 THEN 0
    ELSE (a % 2) * (b % 2) + 2 * NatAnd(a \div 2, b \div 2)

RECURSIVE NatOr(_, _)
NatOr(a, b) ==
    IF a = 0 THEN b
    ELSE IF b = 0 THEN a
    ELSE (IF a % 2 = 1 \/ b % 2 = 1 THEN 1 ELSE 0) + 2 * NatOr(a \div 2, b \div 2)

RECURSIVE NatXor(_, _)
NatXor(a, b) ==
    IF a = 0 THEN b
    ELSE IF b = 0 THEN a
    ELSE (IF a % 2 = b % 2 THEN 0 ELSE 1) + 2 * NatXor(a \div 2, b \div 2)

\* a & ~b for naturals
RECURSIVE NatAndNot(_, _)
NatAndNot(a, b) ==
    IF a = 0 THEN 0
    ELSE IF b = 0 THEN a
    ELSE (IF a % 2 = 1 /\ b % 2 = 0 THEN 1 ELSE 0) + 2 * NatAndNot(a \div 2, b \div 2)

\* ~x
Inv(x) == -x - 1

BitAnd(a, b) ==
    IF a >= 0 /\ b >= 0 THEN NatAnd(a, b)
    ELSE IF a >= 0 THEN NatAndNot(a, Inv(b))
    ELSE IF b >= 0 THEN NatAndNot(b, Inv(a))
    ELSE Inv(NatOr(Inv(a), Inv(b)))

BitOr(a, b) ==
    IF a >= 0 /\ b >= 0 THEN NatOr(a, b)
    ELSE IF a >= 0 THEN Inv(NatAndNot(Inv(b), a))
    ELSE IF b >= 0 THEN Inv(NatAndNot(Inv(a), b))
    ELSE Inv(NatAnd(Inv(a), Inv(b)))

BitXor(a, b) ==
    IF a >= 0 /\ b >= 0 THEN NatXor(a, b)
    ELSE IF a >= 0 THEN Inv(NatXor(a, Inv(b)))
    ELSE IF b >= 0 THEN Inv(NatXor(Inv(a), b))
    ELSE NatXor(Inv(a), Inv(b))

\* A << B for B >= 0; the doubling stops once the value has left the
\* explored range, so the result is exact whenever it is within MaxVal
RECURSIVE ShiftLeft(_, _)
ShiftLeft(A, B) ==
    IF B = 0 \/ A = 0 \/ A > MaxVal \/ A < -MaxVal THEN A
    ELSE ShiftLeft(2 * A, B - 1)

\* A >> B for B >= 0 (floor division by 2^B)
RECURSIVE ShiftRight(_, _)
ShiftRight(A, B) ==
    IF B = 0 \/ A = 0 \/ A = -1 THEN A
    ELSE ShiftRight(A \div 2, B - 1)

\* Python's A % B for B # 0 (the result takes the sign of B)
PyMod(A, B) == IF B > 0 THEN A % B ELSE -((-A) % (-B))

-----------------------------------------------------------------------------
(* CPU.pc_increment *)

pc_increment(instruction) == (BitAnd(instruction, 192) \div 64) + 1

-----------------------------------------------------------------------------
(* CPU.alu *)

\* the CMP arm: flag format is 00000LGE
alu_CMP_equal_and_greater(A, B) ==
    IF A = B THEN 3
    ELSE IF A > B THEN 2
    ELSE 4
alu_CMP(A, B) ==
    IF A = B THEN 1
    ELSE IF A > B THEN 2
    ELSE 4

\* the exception alu raises, "none" when it returns
alu_error(op, reg_a, reg_b) ==
    IF ~InReg(reg_a) \/ ~InReg(reg_b) THEN "IndexError"
    ELSE LET B == reg_get(reg_b) IN
         IF op = "DIV" /\ B = 0 THEN "ZeroDivisionError"
         ELSE IF op = "MOD" /\ B = 0 THEN "ValueError"
         ELSE IF op \in {"SHL", "SHR"} /\ B < 0 THEN "ValueError"
         ELSE IF op \notin {"ADD", "SUB", "MUL", "DIV", "MOD", "CMP", "AND",
                            "OR", "XOR", "NOT", "SHL", "SHR"} THEN "Exception"
         ELSE "none"

\* the value alu returns when it raises nothing; the float quotient of DIV
\* is kept as the pair of its operands
alu(op, reg_a, reg_b) ==
    LET A == reg_get(reg_a)
        B == reg_get(reg_b)
    IN CASE op = "ADD" -> A + B
         [] op = "SUB" -> A - B
         [] op = "MUL" -> A * B
         [] op = "DIV" -> <<A, B>>
         [] op = "MOD" -> PyMod(A, B)
         [] op = "CMP" -> alu_CMP(A, B)
         [] op = "AND" -> BitAnd(A, B)
         [] op = "OR" -> BitOr(A, B)
         [] op = "XOR" -> BitXor(A, B)
         [] op = "NOT" -> 255 - A
         [] op = "SHL" -> ShiftLeft(A, B)
         [] op = "SHR" -> ShiftRight(A, B)

-----------------------------------------------------------------------------
(* The state after CPU.__init__ and CPU.load *)

\* register operands and immediates the generated programs draw from
RegOperands == {0, 1}
Immediates == {5, 200}

\* one instruction as its bytes
Ins0(op) == <<op>>
Ins1(op, a) == <<op, a>>
Ins2(op, a, b) == <<op, a, b>>

InstructionPool ==
    {Ins2(OpLDI, r, v) : r \in RegOperands, v \in Immediates}
    \cup {Ins1(op, r) : op \in {OpPUSH, OpPOP, OpCALL}, r \in RegOperands}
    \cup {Ins1(op, 0) : op \in {OpPRN, OpJMP, OpJEQ, OpJNE, OpNOT}}
    \cup {Ins2(op, 0, 1) : op \in {OpADD, OpSUB, OpMUL, OpDIV, OpMOD, OpCMP, OpAND,
                                   OpOR, OpXOR, OpSHL, OpSHR}}
    \cup {Ins2(OpCMP, 0, 0), Ins2(OpADD, 7, 7), Ins1(OpJMP, 7), Ins1(OpPUSH, 8),
          Ins1(OpCALL, 8), Ins0(OpHLT), Ins0(OpRET), Ins0(0)}

RECURSIVE Flatten(_)
Flatten(instrs) ==
    IF instrs = <<>> THEN <<>> ELSE Head(instrs) \o Flatten(Tail(instrs))

GeneratedPrograms ==
    UNION {{Flatten(q) : q \in [1..n -> InstructionPool]} : n \in 1..MaxProgLen}

\* the programs of the end-to-end scenarios, and programs that exercise
\* subroutines, the stack and the conditional jumps
ScenarioPrograms ==
    { <<OpLDI, 0, 8, OpPRN, 0, OpHLT>>,
      <<OpLDI, 0, 5, OpLDI, 1, 6, OpMUL, 0, 1, OpPRN, 0, OpHLT>>,
      <<OpLDI, 0, 42, OpPUSH, 0, OpPOP, 1, OpPRN, 1, OpHLT>>,
      <<OpLDI, 0, 5, OpLDI, 1, 5, OpLDI, 2, 17, OpCMP, 0, 1, OpJEQ, 2, OpHLT,
        OpHLT, OpHLT, OpJNE, 2, OpHLT>>,
      <<OpLDI, 0, 5, OpLDI, 1, 5, OpLDI, 2, 17, OpCMP, 0, 1, OpJNE, 2, OpJEQ, 2,
        OpHLT, OpPRN, 0, OpHLT>>,
      <<OpLDI, 0, 5, OpLDI, 1, 6, OpLDI, 2, 17, OpCMP, 0, 1, OpJEQ, 2, OpJNE, 2,
        OpHLT, OpPRN, 0, OpHLT>>,
      <<OpLDI, 0, 6, OpLDI, 1, 5, OpLDI, 2, 17, OpCMP, 0, 1, OpJNE, 2, OpHLT,
        OpHLT, OpHLT, OpJEQ, 2, OpHLT>>,
      <<OpLDI, 1, 9, OpLDI, 0, 7, OpCALL, 1, OpHLT, OpPUSH, 0, OpPOP, 2, OpRET>>,
      <<OpLDI, 1, 9, OpLDI, 2, 12, OpCALL, 1, OpHLT, OpCALL, 2, OpRET, OpADD, 0, 1, OpRET>>,
      <<OpLDI, 0, 200, OpADD, 0, 0, OpNOT, 0, OpLDI, 1, 3, OpAND, 0, 1, OpOR, 1, 0,
        OpXOR, 0, 1, OpSHR, 0, 1, OpSHL, 1, 0>>,
      <<OpLDI, 0, 200, OpADD, 0, 0, OpPUSH, 0, OpPOP, 1, OpJMP, 1>>,
      <<OpLDI, 0, 5, OpCMP, 0, 1, OpCMP, 1, 0, OpCMP, 0, 0, OpHLT>>,
      <<OpJEQ, 8, OpHLT>>,
      <<OpCMP, 0, 0, OpJNE, 9, OpPRN, 0, OpHLT>>,
      <<OpSUB, 8, 0>>,
      <<OpLDI, 0, 3, OpPOP, 1, OpJMP, 0>>,
      <<OpLDI, 0, 3, OpPUSH, 1, OpJMP, 0>> }

Programs == GeneratedPrograms \cup ScenarioPrograms

\* CPU.load: the parsed bytes go to ram[0..N-1], the rest stays 0
LoadedRam(program) ==
    [a \in 0..(RamSize - 1) |-> IF a < Len(program) THEN program[a + 1] ELSE 0]

Snapshot == [pc |-> pc, sp |-> sp, reg |-> reg, ir |-> ir, fl |-> fl]

-----------------------------------------------------------------------------
(* CPU.load: the program file, a sequence of lines, each a sequence of     *)
(* characters; the line terminator is whitespace to int() and is left out  *)

\* line.split("#", 1)[0]
RECURSIVE BeforeHash(_)
BeforeHash(line) ==
    IF line = <<>> \/ Head(line) = "#" THEN <<>>
    ELSE <<Head(line)>> \o BeforeHash(Tail(line))

\* int() ignores leading and trailing whitespace
RECURSIVE StripLeft(_)
StripLeft(chars) ==
    IF chars # <<>> /\ Head(chars) = " " THEN StripLeft(Tail(chars)) ELSE chars

RECURSIVE StripRight(_)
StripRight(chars) ==
    IF chars # <<>> /\ chars[Len(chars)] = " "
    THEN StripRight(SubSeq(chars, 1, Len(chars) - 1))
    ELSE chars

RECURSIVE BinaryValue(_)
BinaryValue(digits) ==
    IF digits = <<>> THEN 0
    ELSE 2 * BinaryValue(SubSeq(digits, 1, Len(digits) - 1))
         + (IF digits[Len(digits)] = "1" THEN 1 ELSE 0)

\* int(chars, 2) for lines over the characters 0, 1, space, # and x: the
\* value, or ok = FALSE where int raises ValueError
int_base2(chars) ==
    LET digits == StripRight(StripLeft(chars))
    IN IF digits = <<>> \/ \E k \in 1..Len(digits) : digits[k] \notin {"0", "1"}
       THEN [ok |-> FALSE, value |-> 0]
       ELSE [ok |-> TRUE, value |-> BinaryValue(digits)]

\* an address that moves on whether or not the line parsed
next_address_always(address, parsed) == address + 1

\* `address += 1` comes after a successful parse only; ValueError is passed
\* over
next_address(address, parsed) == IF parsed.ok THEN address + 1 ELSE address

\* `for line in f`: a parsed value is written at address
RECURSIVE load_lines(_, _, _)
load_lines(lines, address, memory) ==
    IF lines = <<>> THEN memory
    ELSE LET parsed == int_base2(BeforeHash(Head(lines)))
         IN load_lines(Tail(lines),
                       next_address(address, parsed),
                       IF parsed.ok THEN [memory EXCEPT ![address] = parsed.value]
                       ELSE memory)

\* the 8-character binary literal of a byte, and the file of a program
Literal(byte) ==
    [k \in 1..8 |-> IF (byte \div 2^(8 - k)) % 2 = 1 THEN "1" ELSE "0"]

ProgramFile(program) == [k \in 1..Len(program) |-> Literal(program[k])]

\* lines that parse (1, 130 with a comment, 5 with a leading space) and
\* lines that do not (blank, comment only, non-binary, inner space)
LinePool ==
    { <<"0", "0", "0", "0", "0", "0", "0", "1">>,
      <<"1", "0", "0", "0", "0", "0", "1", "0", " ", "#", " ", "x">>,
      <<" ", "1", "0", "1">>,
      <<>>,
      <<"#", " ", "1">>,
      <<"x", "1">>,
      <<"1", " ", "0">> }

MixedFiles == UNION {[1..n -> LinePool] : n \in 1..MaxFileLines}

ProgramFiles == {ProgramFile(program) : program \in Programs} \cup MixedFiles

Init ==
    /\ reg = [i \in 0..(RegCount - 1) |-> 0]
    /\ ram = [a \in 0..(RamSize - 1) |-> 0]
    /\ image \in ProgramFiles
    /\ sp = reg[7]
    /\ pc = 0
    /\ ir = 1
    /\ fl = 0
    /\ status = "constructed"
    /\ output = <<>>
    /\ prev = [pc |-> 0, sp |-> 0, reg |-> reg, ir |-> 1, fl |-> 0]
    /\ calls = <<>>

-----------------------------------------------------------------------------
(* CPU.run: the loop `while running == True`, one action per dispatch arm *)

\* a value the exploration keeps
Fits(v) == v >= -MaxVal /\ v <= MaxVal

\* the top of the loop: the byte at pc is fetched and compared with an opcode
Fetch(opcode) ==
    /\ status = "running"
    /\ InRam(pc)
    /\ ram_read(pc) = opcode
    /\ ir' = opcode
    /\ prev' = Snapshot
    /\ image' = image

\* the stack pointer one slot down (PUSH, CALL) and one slot up (POP, RET)
stack_dec(s) == s - 1

\* POP that forgets step 2
stack_inc_keep(s) == s
stack_inc(s) == s + 1

\* the address CALL pushes
\* CALL that pushes the address of its own operand byte
CALL_return_address_operand(p) == p + 1
CALL_return_address(p) == p + 2

\* the flag register after CMP computed new_flag
\* the flag update of the commented-out line 491
CMP_flags_or(old_flag, new_flag) == BitOr(old_flag, new_flag)
CMP_flags(old_flag, new_flag) == new_flag

\* the conditions under which JEQ and JNE jump
\* JEQ that tests the Greater bit
JEQ_taken_greater(flag) == BitAnd(flag, 2) # 0
JEQ_taken(flag) == BitAnd(flag, 1) # 0
JNE_taken(flag) == flag # 1

\* the records of the CALLs not yet returned from; a write to ram[slot] marks
\* the CALLs whose return address was stored there
Clobber(slot) ==
    [i \in DOMAIN calls |->
        IF calls[i].slot = slot THEN [calls[i] EXCEPT !.intact = FALSE] ELSE calls[i]]

\* an uncaught exception ends the run
Raise(exception) == status' = exception

\* load(): the lines of the file are parsed and written from address 0 on
load ==
    /\ status = "constructed"
    /\ ram' = load_lines(image, 0, ram)
    /\ status' = "loaded"
    /\ UNCHANGED <<reg, sp, pc, ir, fl, output, prev, calls, image>>

\* run() up to the loop: R7 is set, running = True
Start ==
    /\ status = "loaded"
    /\ reg' = [reg EXCEPT ![7] = StackStart]
    /\ status' = "running"
    /\ UNCHANGED <<ram, sp, pc, ir, fl, output, prev, calls, image>>

\* the index of the fetch itself is out of range
FetchError ==
    /\ status = "running"
    /\ ~InRam(pc)
    /\ Raise("IndexError")
    /\ prev' = Snapshot
    /\ UNCHANGED <<reg, ram, sp, pc, ir, fl, output, calls, image>>

\* LDI that takes its two operand bytes in the wrong order
LDI_operands_swapped ==
    /\ Fetch(OpLDI)
    /\ IF ~InRam(pc + 1) \/ ~InRam(pc + 2) \/ ~InReg(ram_read(pc + 2))
       THEN /\ Raise("IndexError")
            /\ UNCHANGED <<reg, pc>>
       ELSE /\ reg' = reg_set(ram_read(pc + 2), ram_read(pc + 1))
            /\ pc' = pc + pc_increment(OpLDI)
            /\ UNCHANGED status
    /\ UNCHANGED <<ram, sp, fl, output, calls>>

LDI ==
    /\ Fetch(OpLDI)
    /\ IF ~InRam(pc + 1) \/ ~InRam(pc + 2) \/ ~InReg(ram_read(pc + 1))
       THEN /\ Raise("IndexError")
            /\ UNCHANGED <<reg, pc>>
       ELSE /\ reg' = reg_set(ram_read(pc + 1), ram_read(pc + 2))
            /\ pc' = pc + pc_increment(OpLDI)
            /\ UNCHANGED status
    /\ UNCHANGED <<ram, sp, fl, output, calls>>

\* PRN that prints its operand byte instead of the register it names
PRN_prints_operand ==
    /\ Fetch(OpPRN)
    /\ IF ~InRam(pc + 1) \/ ~InReg(ram_read(pc + 1))
       THEN /\ Raise("IndexError")
            /\ UNCHANGED <<output, pc>>
       ELSE /\ Len(output) < MaxOut
            /\ output' = Append(output, ram_read(pc + 1))
            /\ pc' = pc + pc_increment(OpPRN)
            /\ UNCHANGED status
    /\ UNCHANGED <<reg, ram, sp, fl, calls>>

PRN ==
    /\ Fetch(OpPRN)
    /\ IF ~InRam(pc + 1) \/ ~InReg(ram_read(pc + 1))
       THEN /\ Raise("IndexError")
            /\ UNCHANGED <<output, pc>>
       ELSE /\ Len(output) < MaxOut
            /\ output' = Append(output, reg_get(ram_read(pc + 1)))
            /\ pc' = pc + pc_increment(OpPRN)
            /\ UNCHANGED status
    /\ UNCHANGED <<reg, ram, sp, fl, calls>>

HLT ==
    /\ Fetch(OpHLT)
    /\ status' = "halted"
    /\ UNCHANGED <<reg, ram, sp, pc, fl, output, calls>>

PUSH ==
    /\ Fetch(OpPUSH)
    /\ sp' = stack_dec(sp)
    /\ sp' >= -MaxStack
    /\ IF ~InRam(pc + 1) \/ ~InReg(ram_read(pc + 1)) \/ ~InRam(sp')
       THEN /\ Raise("IndexError")
            /\ UNCHANGED <<ram, pc, calls>>
       ELSE /\ ram' = ram_write(sp', reg_get(ram_read(pc + 1)))
            /\ pc' = pc + pc_increment(OpPUSH)
            /\ calls' = Clobber(ListIdx(sp', RamSize))
            /\ UNCHANGED status
    /\ UNCHANGED <<reg, fl, output>>

POP_clears_slot ==
    /\ Fetch(OpPOP)
    /\ IF ~InRam(sp) \/ ~InRam(pc + 1) \/ ~InReg(ram_read(pc + 1))
       THEN /\ Raise("IndexError")
            /\ UNCHANGED <<reg, ram, sp, pc>>
       ELSE /\ reg' = reg_set(ram_read(pc + 1), ram_read(sp))
            /\ ram' = ram_write(sp, 0)
            /\ sp' = stack_inc(sp)
            /\ sp' <= MaxStack
            /\ pc' = pc + pc_increment(OpPOP)
            /\ UNCHANGED status
    /\ UNCHANGED <<fl, output, calls>>
POP ==
    /\ Fetch(OpPOP)
    /\ IF ~InRam(sp) \/ ~InRam(pc + 1) \/ ~InReg(ram_read(pc + 1))
       THEN /\ Raise("IndexError")
            /\ UNCHANGED <<reg, sp, pc>>
       ELSE /\ reg' = reg_set(ram_read(pc + 1), ram_read(sp))
            /\ sp' = stack_inc(sp)
            /\ sp' <= MaxStack
            /\ pc' = pc + pc_increment(OpPOP)
            /\ UNCHANGED status
    /\ UNCHANGED <<ram, fl, output, calls>>

CALL ==
    /\ Fetch(OpCALL)
    /\ sp' = stack_dec(sp)
    /\ sp' >= -MaxStack
    /\ IF ~InRam(sp')
       THEN /\ Raise("IndexError")
            /\ UNCHANGED <<ram, pc, calls>>
       ELSE /\ ram' = ram_write(sp', CALL_return_address(pc))
            /\ IF ~InRam(pc + 1) \/ ~InReg(ram'[ListIdx(pc + 1, RamSize)])
               THEN /\ Raise("IndexError")
                    /\ UNCHANGED <<pc, calls>>
               ELSE /\ pc' = reg_get(ram'[ListIdx(pc + 1, RamSize)])
                    /\ calls' = Append(Clobber(ListIdx(sp', RamSize)),
                                       [p |-> pc, s |-> sp,
                                        slot |-> ListIdx(sp', RamSize),
                                        intact |-> TRUE])
                    /\ UNCHANGED status
    /\ UNCHANGED <<reg, fl, output>>

RET ==
    /\ Fetch(OpRET)
    /\ IF ~InRam(sp)
       THEN /\ Raise("IndexError")
            /\ UNCHANGED <<sp, pc, calls>>
       ELSE /\ pc' = ram_read(sp)
            /\ sp' = stack_inc(sp)
            /\ sp' <= MaxStack
            /\ calls' = IF calls = <<>> THEN calls ELSE SubSeq(calls, 1, Len(calls) - 1)
            /\ UNCHANGED status
    /\ UNCHANGED <<reg, ram, fl, output>>

JMP ==
    /\ Fetch(OpJMP)
    /\ IF ~InRam(pc + 1) \/ ~InReg(ram_read(pc + 1))
       THEN /\ Raise("IndexError")
            /\ UNCHANGED pc
       ELSE /\ pc' = reg_get(ram_read(pc + 1))
            /\ UNCHANGED status
    /\ UNCHANGED <<reg, ram, sp, fl, output, calls>>

JEQ ==
    /\ Fetch(OpJEQ)
    /\ IF ~InRam(pc + 1) \/ (JEQ_taken(fl) /\ ~InReg(ram_read(pc + 1)))
       THEN /\ Raise("IndexError")
            /\ UNCHANGED pc
       ELSE /\ pc' = IF JEQ_taken(fl) THEN reg_get(ram_read(pc + 1))
                     ELSE pc + pc_increment(OpJEQ)
            /\ UNCHANGED status
    /\ UNCHANGED <<reg, ram, sp, fl, output, calls>>

JNE_clears_flags ==
    /\ Fetch(OpJNE)
    /\ IF ~InRam(pc + 1) \/ (JNE_taken(fl) /\ ~InReg(ram_read(pc + 1)))
       THEN /\ Raise("IndexError")
            /\ UNCHANGED pc
       ELSE /\ pc' = IF JNE_taken(fl) THEN reg_get(ram_read(pc + 1))
                     ELSE pc + pc_increment(OpJNE)
            /\ UNCHANGED status
    /\ fl' = 0
    /\ UNCHANGED <<reg, ram, sp, output, calls>>
JNE ==
    /\ Fetch(OpJNE)
    /\ IF ~InRam(pc + 1) \/ (JNE_taken(fl) /\ ~InReg(ram_read(pc + 1)))
       THEN /\ Raise("IndexError")
            /\ UNCHANGED pc
       ELSE /\ pc' = IF JNE_taken(fl) THEN reg_get(ram_read(pc + 1))
                     ELSE pc + pc_increment(OpJNE)
            /\ UNCHANGED status
    /\ UNCHANGED <<reg, ram, sp, fl, output, calls>>

\* the arms that read two register operands, call the ALU and store the
\* result in register A
AluArm(opcode, op) ==
    /\ IF ~InRam(pc + 1) \/ ~InRam(pc + 2)
       THEN /\ Raise("IndexError")
            /\ UNCHANGED <<reg, pc>>
       ELSE LET register_num_A == ram_read(pc + 1)
                register_num_B == ram_read(pc + 2)
            IN IF alu_error(op, register_num_A, register_num_B) # "none"
               THEN /\ Raise(alu_error(op, register_num_A, register_num_B))
                    /\ UNCHANGED <<reg, pc>>
               ELSE /\ Fits(alu(op, register_num_A, register_num_B))
                    /\ reg' = reg_set(register_num_A, alu(op, register_num_A, register_num_B))
                    /\ pc' = pc + pc_increment(opcode)
                    /\ UNCHANGED status
    /\ UNCHANGED <<ram, sp, fl, output, calls>>

ADD ==
    /\ Fetch(OpADD)
    /\ AluArm(OpADD, "ADD")

MUL ==
    /\ Fetch(OpMUL)
    /\ AluArm(OpMUL, "MUL")

\* the SUB arm is `pass`: nothing but the fetch happens
SUB ==
    /\ Fetch(OpSUB)
    /\ UNCHANGED <<reg, ram, sp, pc, fl, status, output, calls>>

\* the DIV arm is `pass`: nothing but the fetch happens
DIV ==
    /\ Fetch(OpDIV)
    /\ UNCHANGED <<reg, ram, sp, pc, fl, status, output, calls>>

MOD ==
    /\ Fetch(OpMOD)
    /\ AluArm(OpMOD, "MOD")

CMP ==
    /\ Fetch(OpCMP)
    /\ IF ~InRam(pc + 1) \/ ~InRam(pc + 2)
       THEN /\ Raise("IndexError")
            /\ UNCHANGED <<fl, pc>>
       ELSE LET register_num_A == ram_read(pc + 1)
                register_num_B == ram_read(pc + 2)
            IN IF alu_error("CMP", register_num_A, register_num_B) # "none"
               THEN /\ Raise(alu_error("CMP", register_num_A, register_num_B))
                    /\ UNCHANGED <<fl, pc>>
               ELSE /\ fl' = CMP_flags(fl, alu("CMP", register_num_A, register_num_B))
                    /\ pc' = pc + pc_increment(OpCMP)
                    /\ UNCHANGED status
    /\ UNCHANGED <<reg, ram, sp, output, calls>>

AND ==
    /\ Fetch(OpAND)
    /\ AluArm(OpAND, "AND")

OR ==
    /\ Fetch(OpOR)
    /\ AluArm(OpOR, "OR")

XOR ==
    /\ Fetch(OpXOR)
    /\ AluArm(OpXOR, "XOR")

NOT ==
    /\ Fetch(OpNOT)
    /\ IF ~InRam(pc + 1)
       THEN /\ Raise("IndexError")
            /\ UNCHANGED <<reg, pc>>
       ELSE LET register_num_A == ram_read(pc + 1)
            IN IF alu_error("NOT", register_num_A, register_num_A) # "none"
               THEN /\ Raise(alu_error("NOT", register_num_A, register_num_A))
                    /\ UNCHANGED <<reg, pc>>
               ELSE /\ reg' = reg_set(register_num_A, alu("NOT", register_num_A, register_num_A))
                    /\ pc' = pc + pc_increment(OpNOT)
                    /\ UNCHANGED status
    /\ UNCHANGED <<ram, sp, fl, output, calls>>

SHL ==
    /\ Fetch(OpSHL)
    /\ AluArm(OpSHL, "SHL")

SHR ==
    /\ Fetch(OpSHR)
    /\ AluArm(OpSHR, "SHR")

\* no arm matches the fetched byte and the chain has no else: the loop goes
\* round with nothing but the instruction register assigned
NoArm ==
    /\ status = "running"
    /\ InRam(pc)
    /\ ram_read(pc) \notin Opcodes
    /\ ir' = ram_read(pc)
    /\ prev' = Snapshot
    /\ UNCHANGED <<reg, ram, sp, pc, fl, status, output, calls, image>>

Next ==
    \/ load
    \/ Start
    \/ FetchError
    \/ LDI
    \/ PRN
    \/ HLT
    \/ PUSH
    \/ POP
    \/ CALL
    \/ RET
    \/ JMP
    \/ JEQ
    \/ JNE
    \/ ADD
    \/ MUL
    \/ SUB
    \/ DIV
    \/ MOD
    \/ CMP
    \/ AND
    \/ OR
    \/ XOR
    \/ NOT
    \/ SHL
    \/ SHR
    \/ NoArm

Spec == Init /\ [][Next]_vars

\* the steps of run()
run ==
    \/ Start \/ FetchError \/ LDI \/ PRN \/ HLT \/ PUSH \/ POP \/ CALL \/ RET
    \/ JMP \/ JEQ \/ JNE \/ ADD \/ MUL \/ SUB \/ DIV \/ MOD \/ CMP \/ AND \/ OR
    \/ XOR \/ NOT \/ SHL \/ SHR \/ NoArm

\* run() is a single loop that nothing suspends: while a step of it is
\* possible one is taken
LiveSpec == Spec /\ WF_vars(run)

TypeOK ==
    /\ status \in {"constructed", "loaded", "running", "halted", "IndexError", "ValueError"}
    /\ DOMAIN ram = 0..(RamSize - 1)
    /\ DOMAIN reg = 0..(RegCount - 1)

-----------------------------------------------------------------------------
(* Properties *)

Running == status = "running"

\* the byte at pc is `opcode` and the run is on: the next step is that arm
At(opcode) == Running /\ InRam(pc) /\ ram_read(pc) = opcode

\* the operand byte k of the instruction at pc names a register R0..R7
RegOperand(k) == InRam(pc + k) /\ ram_read(pc + k) \in 0..(RegCount - 1)

\* the operand byte k of the instruction executed last
PrevOperand(k) == ram[ListIdx(prev.pc + k, RamSize)]

\* C1: every register R0..R7 holds a value in [0,256) in every reachable
\* state (ALU results are stored modulo 256).
C1_RegistersAreBytes ==
    \A i \in 0..(RegCount - 1) : reg[i] \in 0..255

\* C2: once the run has started, the stack pointer used by PUSH, POP, CALL
\* and RET is register R7 (0xF4 at the start).
C2_StackPointerIsR7 ==
    status \in {"running", "halted"} => sp = reg[7]

\* C3: PUSH rA immediately followed by POP rB, rA # rB valid registers, the
\* written stack slot off the bytes of the two instructions: rB holds the
\* value rA had before the PUSH, rA is unchanged, and the stack pointer is
\* back at its value before the PUSH.
C3_PushPopRoundTrip ==
    [][ ( /\ Running /\ ir = OpPUSH
          /\ At(OpPOP) /\ RegOperand(1)
          /\ PrevOperand(1) \in 0..(RegCount - 1)
          /\ PrevOperand(1) # ram_read(pc + 1)
          /\ ListIdx(sp, RamSize) \notin
                {ListIdx(prev.pc + k, RamSize) : k \in 0..3} )
        => ( /\ status' = "running"
             /\ reg'[ram_read(pc + 1)] = prev.reg[PrevOperand(1)]
             /\ reg'[PrevOperand(1)] = prev.reg[PrevOperand(1)]
             /\ sp' = prev.sp ) ]_vars

\* a POP into another register has just followed a PUSH of a non-zero value
C3_Witness ==
    /\ Running /\ ir = OpPOP /\ prev.ir = OpPUSH
    /\ pc >= 4 /\ pc <= RamSize
    /\ ram[pc - 3] \in 0..(RegCount - 1) /\ ram[pc - 1] \in 0..(RegCount - 1)
    /\ ram[pc - 3] # ram[pc - 1]
    /\ reg[ram[pc - 1]] = reg[ram[pc - 3]]
    /\ reg[ram[pc - 1]] # 0

\* C4: CALL r sets PC to the value of register r with no increment; when the
\* subroutine has kept the stack balanced and the pushed return slot has not
\* been written since, the matching RET sets PC to the CALL's address + 2
\* and puts the stack pointer back at its value before the CALL.
C4_CallRet ==
    [][ /\ ( ( /\ At(OpCALL) /\ RegOperand(1)
               /\ ListIdx(sp - 1, RamSize) # ListIdx(pc + 1, RamSize) )
             => pc' = reg[ram_read(pc + 1)] )
        /\ ( ( /\ At(OpRET) /\ calls # <<>>
               /\ calls[Len(calls)].intact
               /\ sp = calls[Len(calls)].s - 1 )
             => ( /\ pc' = calls[Len(calls)].p + 2
                  /\ sp' = calls[Len(calls)].s ) ) ]_vars

\* a RET has just returned to the byte after a CALL's operand, the
\* subroutine having pushed and popped in between
C4_Witness ==
    /\ Running /\ ir = OpRET /\ prev.ir = OpPOP
    /\ pc >= 2 /\ pc < RamSize
    /\ ram[pc - 2] = OpCALL
    /\ prev.pc # pc - 2
    /\ sp = 0

\* C5: CMP of register values a and b sets the flag register to exactly one
\* of 0b001 (iff a = b), 0b010 (iff a > b), 0b100 (iff a < b), whatever the
\* flags were before.
C5_CmpFlags ==
    [][ ( At(OpCMP) /\ RegOperand(1) /\ RegOperand(2) )
        => LET a == reg[ram_read(pc + 1)]
               b == reg[ram_read(pc + 2)]
           IN /\ fl' \in {1, 2, 4}
              /\ (fl' = 1) <=> (a = b)
              /\ (fl' = 2) <=> (a > b)
              /\ (fl' = 4) <=> (a < b) ]_vars

\* a CMP has just replaced the Greater pattern by the Less pattern
C5_Witness ==
    Running /\ ir = OpCMP /\ prev.ir = OpCMP /\ prev.fl = 2 /\ fl = 4

\* C6: DIV rA,rB and MOD rA,rB with rB = 0 end the run with a
\* divide-by-zero error and leave rA as it was.
C6_DivModByZeroFatal ==
    [][ ( /\ (At(OpDIV) \/ At(OpMOD))
          /\ RegOperand(1) /\ RegOperand(2)
          /\ reg[ram_read(pc + 2)] = 0 )
        => ( /\ status' \in {"ValueError", "ZeroDivisionError"}
             /\ reg'[ram_read(pc + 1)] = reg[ram_read(pc + 1)] ) ]_vars

\* C7: a fetched byte that is none of the 22 opcodes ends the run.
C7_UnknownOpcodeFatal ==
    [][ ( Running /\ InRam(pc) /\ ram_read(pc) \notin Opcodes )
        => status' # "running" ]_vars

\* C8: SUB rA,rB stores (rA - rB) mod 256 in rA, leaves the other registers,
\* memory, flags and SP unchanged, and advances PC by 3.
C8_SubExecutes ==
    [][ ( At(OpSUB) /\ RegOperand(1) /\ RegOperand(2) )
        => ( /\ reg' = [reg EXCEPT ![ram_read(pc + 1)] =
                            (reg[ram_read(pc + 1)] - reg[ram_read(pc + 2)]) % 256]
             /\ pc' = pc + 3
             /\ UNCHANGED <<ram, fl, sp>> ) ]_vars

\* C9: in every reachable state the stack pointer is an address in [0,256)
\* (a PUSH/CALL below 0 or a POP/RET past the end is an error, not a wrapped
\* access).
C9_StackPointerInBounds ==
    status \in {"running", "halted"} => sp \in 0..(RamSize - 1)

\* C10: right after a CMP of equal values JEQ r jumps to the value of r and
\* JNE r advances PC by 2; right after a CMP of different values JEQ r
\* advances PC by 2 and JNE r jumps to the value of r.
C10_CmpThenJump ==
    [][ ( /\ Running /\ ir = OpCMP
          /\ (At(OpJEQ) \/ At(OpJNE)) /\ RegOperand(1) )
        => LET equal == prev.reg[ListIdx(PrevOperand(1), RegCount)]
                        = prev.reg[ListIdx(PrevOperand(2), RegCount)]
               target == reg[ram_read(pc + 1)]
           IN pc' = IF (ram_read(pc) = OpJEQ) <=> equal
                    THEN target ELSE pc + 2 ]_vars

\* a JEQ right after a CMP of equal values has jumped away from the
\* fall-through address
C10_Witness ==
    /\ Running /\ ir = OpJEQ /\ prev.ir = OpCMP /\ fl = 1
    /\ pc # prev.pc + 2

\* C11: LDI r v with r in [0,8) and v a byte leaves v mod 256 in register
\* r, every other register, memory, flags and SP unchanged, and PC advanced
\* by 3.
C11_LdiLoads ==
    [][ ( /\ At(OpLDI) /\ RegOperand(1)
          /\ InRam(pc + 2) /\ ram_read(pc + 2) \in 0..255 )
        => ( /\ reg' = [reg EXCEPT ![ram_read(pc + 1)] = ram_read(pc + 2) % 256]
             /\ pc' = pc + 3
             /\ UNCHANGED <<ram, fl, sp>> ) ]_vars

\* an LDI has just put 200 in R1, R0 holding another non-zero value
C11_Witness ==
    /\ Running /\ ir = OpLDI /\ reg[1] = 200 /\ prev.reg[1] # 200
    /\ reg[0] \notin {0, 200} /\ pc = prev.pc + 3

\* the registers that hold a byte
ByteRegs == {i \in 0..(RegCount - 1) : reg[i] \in 0..255}

\* C12: for register values a, b in [0,256) and op in {ADD, SUB, MUL, AND,
\* OR, XOR, SHL, SHR} the ALU result lies in [0,256), and for ADD, SUB and
\* MUL it is the integer result modulo 256.
C12_AluResultIsByte ==
    \A i \in ByteRegs, j \in ByteRegs :
        /\ \A op \in {"ADD", "SUB", "MUL", "AND", "OR", "XOR", "SHL", "SHR"} :
              alu(op, i, j) \in 0..255
        /\ alu("ADD", i, j) = (reg[i] + reg[j]) % 256
        /\ alu("SUB", i, j) = (reg[i] - reg[j]) % 256
        /\ alu("MUL", i, j) = (reg[i] * reg[j]) % 256

\* C13: for a register value a in [0,256), SHL and SHR by b >= 8 yield 0;
\* by b < 8 SHL yields (a * 2^b) mod 256 and SHR yields floor(a / 2^b).
C13_ShiftSemantics ==
    \A i \in ByteRegs, j \in ByteRegs :
        IF reg[j] >= 8
        THEN alu("SHL", i, j) = 0 /\ alu("SHR", i, j) = 0
        ELSE /\ alu("SHL", i, j) = (reg[i] * 2^reg[j]) % 256
             /\ alu("SHR", i, j) = reg[i] \div 2^reg[j]

\* C14: a memory access at an address outside [0,256), negative ones
\* included, fails with an out-of-bounds error and leaves memory unchanged.
C14_OutOfBoundsFatal ==
    [][ ( /\ Running
          /\ \/ pc \notin 0..(RamSize - 1)
             \/ (At(OpPUSH) \/ At(OpCALL)) /\ stack_dec(sp) \notin 0..(RamSize - 1)
             \/ (At(OpPOP) \/ At(OpRET)) /\ sp \notin 0..(RamSize - 1) )
        => ( status' = "IndexError" /\ ram' = ram ) ]_vars

\* the programs of the end-to-end scenarios 1 and 2
Print8 == <<OpLDI, 0, 8, OpPRN, 0, OpHLT>>
Mult == <<OpLDI, 0, 5, OpLDI, 1, 6, OpMUL, 0, 1, OpPRN, 0, OpHLT>>

\* C15: the run of the loaded program LDI R0,8; PRN R0; HLT eventually halts with output <8>,
\* the run of LDI R0,5; LDI R1,6; MUL R0,R1; PRN R0; HLT eventually halts
\* with output <30>, and PRN changes no register, memory cell, flag or SP.
C15_ScenariosHalt ==
    /\ (status = "loaded" /\ ram = LoadedRam(Print8))
          ~> (status = "halted" /\ output = <<8>>)
    /\ (status = "loaded" /\ ram = LoadedRam(Mult))
          ~> (status = "halted" /\ output = <<30>>)
    /\ [][ At(OpPRN) => UNCHANGED <<reg, ram, fl, sp>> ]_vars

\* the multiplication scenario has halted after printing 30
C15_Witness ==
    /\ status = "halted" /\ output = <<30>>
    /\ reg[0] = 30 /\ reg[1] = 6 /\ pc = 11

\* the positions of the operand bytes an opcode uses as register numbers
RegisterOperands(opcode) ==
    IF opcode \in {OpLDI, OpPRN, OpPUSH, OpPOP, OpCALL, OpJMP, OpJEQ, OpJNE, OpNOT}
    THEN {1}
    ELSE IF opcode \in {OpADD, OpSUB, OpMUL, OpDIV, OpMOD, OpCMP, OpAND, OpOR,
                        OpXOR, OpSHL, OpSHR}
    THEN {1, 2}
    ELSE {}

\* C16: an instruction with a register-operand byte outside [0,8) ends the
\* run with a register-index error and touches no register.
C16_RegisterIndexFatal ==
    [][ ( /\ Running /\ InRam(pc)
          /\ \E k \in RegisterOperands(ram_read(pc)) :
                InRam(pc + k) /\ ram_read(pc + k) \notin 0..(RegCount - 1) )
        => ( status' = "IndexError" /\ reg' = reg ) ]_vars

\* the values of the lines that parse, in file order
RECURSIVE ParsedValues(_)
ParsedValues(lines) ==
    IF lines = <<>> THEN <<>>
    ELSE LET parsed == int_base2(BeforeHash(Head(lines)))
         IN (IF parsed.ok THEN <<parsed.value>> ELSE <<>>) \o ParsedValues(Tail(lines))

\* C17: loading a file that mixes parseable and unparseable lines writes the
\* parsed values, in file order, to ram[0..N-1], N the number of parseable
\* lines, and leaves the cells from N upward at 0.
C17_LoadSkipsUnparseable ==
    [][ status = "constructed" => ram' = LoadedRam(ParsedValues(image)) ]_vars

\* a file of three lines, the middle one unparseable, has been loaded into
\* the first two cells
C17_Witness ==
    /\ status = "loaded" /\ Len(image) = 3
    /\ int_base2(BeforeHash(image[1])).ok
    /\ ~int_base2(BeforeHash(image[2])).ok
    /\ int_base2(BeforeHash(image[3])).ok
    /\ ram[0] = 130 /\ ram[1] = 5 /\ ram[2] = 0

\* the address a step that executes the instruction at pc leaves in PC: the
\* explicit target for JMP, CALL, RET and a taken JEQ/JNE, else pc plus the
\* operand count (bits 6-7 of the opcode) plus 1
ExpectedPc ==
    LET opcode == ram_read(pc)
    IN IF \/ opcode \in {OpJMP, OpCALL}
          \/ (opcode = OpJEQ /\ JEQ_taken(fl))
          \/ (opcode = OpJNE /\ JNE_taken(fl))
       THEN reg[ListIdx(ram_read(pc + 1), RegCount)]
       ELSE IF opcode = OpRET
       THEN ram[ListIdx(sp, RamSize)]
       ELSE pc + (opcode \div 64) + 1

\* C18: a step that executes an instruction of the table other than HLT
\* sets PC once, to pc + operand_count + 1 (fall-through, SUB, DIV and
\* untaken JEQ/JNE included) or to exactly the explicit target (JMP, CALL,
\* RET, taken JEQ/JNE); no table instruction leaves PC where it was.
C18_PcUpdatedOnce ==
    [][ ( /\ Running /\ InRam(pc) /\ ram_read(pc) \in Opcodes \ {OpHLT}
          /\ status' = "running" )
        => pc' = ExpectedPc ]_vars

\* C19: the flag register starts at 0 and every executed instruction other
\* than CMP, JEQ and JNE included, leaves it unchanged.
C19_OnlyCmpWritesFlags ==
    /\ fl = 0
    /\ [][ ~At(OpCMP) => fl' = fl ]_vars

\* a JNE has executed with the Greater flag set and the flag is still set
C19_Witness ==
    /\ Running /\ ir = OpJNE /\ prev.fl = 2 /\ fl = 2

\* C20: the flag register is always one of 0, 0b001, 0b010, 0b100, so of
\* JEQ r and JNE r exactly one is taken; with flags = 0 (before any CMP) JNE
\* is taken and JEQ is not.
C20_FlagsOneHot ==
    /\ fl \in {0, 1, 2, 4}
    /\ JEQ_taken(fl) # JNE_taken(fl)
    /\ fl = 0 => (JNE_taken(fl) /\ ~JEQ_taken(fl))

\* a CMP has set the Less flag and a conditional jump is next: JNE would be
\* taken, JEQ would not
C20_Witness ==
    /\ (At(OpJEQ) \/ At(OpJNE)) /\ ir = OpCMP /\ fl = 4
    /\ JNE_taken(fl) /\ ~JEQ_taken(fl)

\* C21: while the run is on, memory is written only by PUSH and CALL, each
\* writing one cell, the one the decremented stack pointer addresses (PUSH
\* the register's value, CALL the return address); every other instruction,
\* POP and RET included, leaves all 256 cells unchanged.
C21_OnlyPushCallWriteRam ==
    [][ Running =>
        IF At(OpPUSH) \/ At(OpCALL)
        THEN /\ \A a \in 0..(RamSize - 1) :
                   a # ListIdx(sp - 1, RamSize) => ram'[a] = ram[a]
             /\ (status' = "running") =>
                   ram'[ListIdx(sp - 1, RamSize)] =
                       IF ram_read(pc) = OpPUSH
                       THEN reg[ListIdx(ram_read(pc + 1), RegCount)]
                       ELSE pc + 2
        ELSE ram' = ram ]_vars

\* a PUSH of the value 42 has changed the loaded memory, and a POP has run
\* after it
C21_Witness ==
    /\ Running /\ ir = OpPOP /\ prev.ir = OpPUSH
    /\ ram[ListIdx(prev.sp, RamSize)] = 42
    /\ ram # LoadedRam(ParsedValues(image))

====
